---------------------------- MODULE Spec2Model ----------------------------
(***************************************************************************)
(* Model of caffe2/operators/local_response_normalization_op_cudnn.cc:     *)
(* the cuDNN LRN forward operator (CuDNNLRNOp) and its gradient            *)
(* (CuDNNLRNGradientOp).  One operator instance is modelled through its    *)
(* whole lifetime: construction, any number of RunOnDevice invocations,    *)
(* destruction.  The vendor library is an environment: every vendor call   *)
(* returns a status chosen nondeterministically, and CUDNN_ENFORCE throws  *)
(* on every status other than success.                                     *)
(*                                                                         *)
(* Floating point options are kept as fixed-point integers (alpha in units *)
(* of 1e-4, beta in units of 1e-2, bias in units of 1): the adapter only   *)
(* stores and forwards them.                                               *)
(***************************************************************************)
EXTENDS Integers, Sequences, FiniteSets, TLC

\* Largest batch size (dimension 0) of the tensors fed to the operator.
MaxN == 2

VARIABLES
    phase,              \* "none" | "live" | "ctor_failed" | "destroyed" | "terminated"
    opKind,             \* "none" | "LRN" | "LRNGradient": the class of the instance
    size_, alpha_, beta_, bias_,    \* the const members (lines 59-62, 101-104)
    data_desc_,         \* cudnnTensorDescriptor_t member and what it was set to
    norm_desc_,         \* cudnnLRNDescriptor_t member and what it was set to
    cudnn_input_dims_,  \* vector<TIndex> member: the cached shape
    out,                \* Output(0): Y of the forward op, dX of the gradient op
    inv,                \* the last RunOnDevice invocation: inputs, result, calls
    prev,               \* how the invocation before the last relates to it
    step                \* the operation that led to this state

vars == <<phase, opKind, size_, alpha_, beta_, bias_, data_desc_, norm_desc_,
          cudnn_input_dims_, out, inv, prev, step>>

----------------------------------------------------------------------------
(* Values *)

\* Rank-4 NCHW shapes; height and width differ so that a permutation shows.
Shapes4 == {<<n, 2, 3, 4>> : n \in 1..MaxN}

\* Inputs the tensor system can hand over: the rank-4 shapes, and the shape of
\* a tensor of rank 0, whose every dimension lookup is out of range.
Shapes == Shapes4 \cup {<<>>}

\* Element kinds of an input tensor; "int32" stands for every unsupported kind.
InTypes == {"float", "float16", "int32"}

\* An output tensor that was never written has TypeMeta "none".
OutTypes == {"none", "float", "float16"}

Statuses == {"CUDNN_STATUS_SUCCESS", "CUDNN_STATUS_BAD_PARAM"}

\* What an out-of-range vector read may yield in an unchecked build: some
\* number that is no dimension of the tensor.
Garbage == {7}

\* OperatorDef arguments: all absent (the defaults of lines 31-34), or the
\* end-to-end configuration size=5, alpha=0.0001, beta=0.75, bias=1.0.
ArgChoices == {[size |-> 0, alpha |-> 0, beta |-> 0, bias |-> 1],
               [size |-> 5, alpha |-> 1, beta |-> 75, bias |-> 1]}

NullTensorDesc == [state |-> "null", set |-> FALSE, dims |-> <<>>, type |-> "none"]
NullLRNDesc == [state |-> "null", nset |-> 0, size |-> 0, alpha |-> 0,
                beta |-> 0, bias |-> 0]

NoInvocation == [op |-> "none", in |-> [dims |-> <<>>, type |-> "none"],
                 X |-> <<>>, Y |-> <<>>, result |-> "none", calls |-> <<>>]

\* prev.rel: "first" when inv is the instance's first invocation, otherwise
\* whether the invocation before it had the "same" input shape or one that
\* "differs"; prev.ok: whether the invocation before it returned true.
NoPrev == [rel |-> "first", ok |-> FALSE]
Before(last, dims) ==
    [rel |-> IF last.op = "none" THEN "first"
             ELSE IF last.in.dims = dims THEN "same" ELSE "differs",
     ok |-> last.result = "true"]

\* What the tensor system may leave in the output blob between invocations,
\* besides what the operator itself left there: the result of another
\* producer.  (Before the first invocation the blob was never written.)
ExternalOutputs == {[dims |-> <<2, 2, 3, 4>>, type |-> "float16"]}

----------------------------------------------------------------------------
Init ==
    /\ phase = "none"
    /\ opKind = "none"
    /\ size_ = 0 /\ alpha_ = 0 /\ beta_ = 0 /\ bias_ = 0
    /\ data_desc_ = NullTensorDesc
    /\ norm_desc_ = NullLRNDesc
    /\ cudnn_input_dims_ = <<>>
    /\ out = [dims |-> <<>>, type |-> "none"]
    /\ inv = NoInvocation
    /\ prev = NoPrev
    /\ step = "Init"


----------------------------------------------------------------------------
(* Vendor library and enforcement macro *)

\* CUDNN_ENFORCE(condition): passes on CUDNN_STATUS_SUCCESS, throws otherwise.
CUDNN_ENFORCE(status) == status = "CUDNN_STATUS_SUCCESS"

----------------------------------------------------------------------------
(* Construction and destruction *)

\* A variant of lines 38-39 that passes alpha and beta in each other's place.
CuDNNLRNOp_CtorBody_swapped(a, s1, s2, s3) ==
    LET d1 == [state |-> "created", set |-> FALSE, dims |-> <<>>, type |-> "none"]
        n1 == [NullLRNDesc EXCEPT !.state = "created"]
        n2 == [state |-> "created", nset |-> 1, size |-> a.size,
               alpha |-> a.beta, beta |-> a.alpha, bias |-> a.bias]
    IN  IF ~CUDNN_ENFORCE(s1)
        THEN [phase |-> "ctor_failed", data |-> NullTensorDesc, norm |-> NullLRNDesc]
        ELSE IF ~CUDNN_ENFORCE(s2)
        THEN [phase |-> "ctor_failed", data |-> d1, norm |-> NullLRNDesc]
        ELSE IF ~CUDNN_ENFORCE(s3)
        THEN [phase |-> "ctor_failed", data |-> d1, norm |-> n1]
        ELSE [phase |-> "live", data |-> d1, norm |-> n2]

\* Lines 35-39: the constructor body after the member initializers.  The
\* result is the phase the instance ends in and the two descriptor members.
\* A constructor that throws leaves no object: its destructor never runs.
CuDNNLRNOp_CtorBody(a, s1, s2, s3) ==
    LET d1 == [state |-> "created", set |-> FALSE, dims |-> <<>>, type |-> "none"]
        n1 == [NullLRNDesc EXCEPT !.state = "created"]
        n2 == [state |-> "created", nset |-> 1, size |-> a.size,
               alpha |-> a.alpha, beta |-> a.beta, bias |-> a.bias]
    IN  IF ~CUDNN_ENFORCE(s1)
        THEN [phase |-> "ctor_failed", data |-> NullTensorDesc, norm |-> NullLRNDesc]
        ELSE IF ~CUDNN_ENFORCE(s2)
        THEN [phase |-> "ctor_failed", data |-> d1, norm |-> NullLRNDesc]
        ELSE IF ~CUDNN_ENFORCE(s3)
        THEN [phase |-> "ctor_failed", data |-> d1, norm |-> n1]
        ELSE [phase |-> "live", data |-> d1, norm |-> n2]

\* A variant of lines 80-81 without CUDNN_ENFORCE around the call that sets
\* the LRN descriptor: a rejected set still yields an instance.
CuDNNLRNGradientOp_CtorBody_unchecked(a, s1, s2, s3) ==
    LET d1 == [state |-> "created", set |-> FALSE, dims |-> <<>>, type |-> "none"]
        n1 == [NullLRNDesc EXCEPT !.state = "created"]
        n2 == [state |-> "created", nset |-> 1, size |-> a.size,
               alpha |-> a.alpha, beta |-> a.beta, bias |-> a.bias]
    IN  IF ~CUDNN_ENFORCE(s1)
        THEN [phase |-> "ctor_failed", data |-> NullTensorDesc, norm |-> NullLRNDesc]
        ELSE IF ~CUDNN_ENFORCE(s2)
        THEN [phase |-> "ctor_failed", data |-> d1, norm |-> NullLRNDesc]
        ELSE [phase |-> "live", data |-> d1,
              norm |-> IF CUDNN_ENFORCE(s3) THEN n2 ELSE n1]

\* Lines 77-81: the same body in the gradient operator.
CuDNNLRNGradientOp_CtorBody(a, s1, s2, s3) ==
    LET d1 == [state |-> "created", set |-> FALSE, dims |-> <<>>, type |-> "none"]
        n1 == [NullLRNDesc EXCEPT !.state = "created"]
        n2 == [state |-> "created", nset |-> 1, size |-> a.size,
               alpha |-> a.alpha, beta |-> a.beta, bias |-> a.bias]
    IN  IF ~CUDNN_ENFORCE(s1)
        THEN [phase |-> "ctor_failed", data |-> NullTensorDesc, norm |-> NullLRNDesc]
        ELSE IF ~CUDNN_ENFORCE(s2)
        THEN [phase |-> "ctor_failed", data |-> d1, norm |-> NullLRNDesc]
        ELSE IF ~CUDNN_ENFORCE(s3)
        THEN [phase |-> "ctor_failed", data |-> d1, norm |-> n1]
        ELSE [phase |-> "live", data |-> d1, norm |-> n2]

\* Lines 43-44: the destructor body.  A throw out of a destructor ends the
\* program (std::terminate), so the second destroy call is never reached.
CuDNNLRNOp_DtorBody(data, norm, s1, s2) ==
    IF ~CUDNN_ENFORCE(s1)
    THEN [phase |-> "terminated", data |-> data, norm |-> norm]
    ELSE IF ~CUDNN_ENFORCE(s2)
    THEN [phase |-> "terminated", data |-> [data EXCEPT !.state = "destroyed"],
          norm |-> norm]
    ELSE [phase |-> "destroyed", data |-> [data EXCEPT !.state = "destroyed"],
          norm |-> [norm EXCEPT !.state = "destroyed"]]

\* Lines 85-86: the same body in the gradient operator.
CuDNNLRNGradientOp_DtorBody(data, norm, s1, s2) ==
    IF ~CUDNN_ENFORCE(s1)
    THEN [phase |-> "terminated", data |-> data, norm |-> norm]
    ELSE IF ~CUDNN_ENFORCE(s2)
    THEN [phase |-> "terminated", data |-> [data EXCEPT !.state = "destroyed"],
          norm |-> norm]
    ELSE [phase |-> "destroyed", data |-> [data EXCEPT !.state = "destroyed"],
          norm |-> [norm EXCEPT !.state = "destroyed"]]

\* CuDNNLRNOp::CuDNNLRNOp (lines 28-40)
CuDNNLRNOp_Construct ==
    /\ phase = "none"
    /\ \E a \in ArgChoices, s1 \in Statuses, s2 \in Statuses, s3 \in Statuses :
          LET r == CuDNNLRNOp_CtorBody(a, s1, s2, s3)
          IN  /\ size_' = a.size /\ alpha_' = a.alpha
              /\ beta_' = a.beta /\ bias_' = a.bias
              /\ phase' = r.phase
              /\ data_desc_' = r.data
              /\ norm_desc_' = r.norm
    /\ opKind' = "LRN"
    /\ step' = "Construct"
    /\ UNCHANGED <<cudnn_input_dims_, out, inv, prev>>

\* CuDNNLRNGradientOp::CuDNNLRNGradientOp (lines 70-82)
CuDNNLRNGradientOp_Construct ==
    /\ phase = "none"
    /\ \E a \in ArgChoices, s1 \in Statuses, s2 \in Statuses, s3 \in Statuses :
          LET r == CuDNNLRNGradientOp_CtorBody(a, s1, s2, s3)
          IN  /\ size_' = a.size /\ alpha_' = a.alpha
              /\ beta_' = a.beta /\ bias_' = a.bias
              /\ phase' = r.phase
              /\ data_desc_' = r.data
              /\ norm_desc_' = r.norm
    /\ opKind' = "LRNGradient"
    /\ step' = "Construct"
    /\ UNCHANGED <<cudnn_input_dims_, out, inv, prev>>

\* CuDNNLRNOp::~CuDNNLRNOp (lines 42-45)
CuDNNLRNOp_Destroy ==
    /\ phase = "live" /\ opKind = "LRN"
    /\ \E s1 \in Statuses, s2 \in Statuses :
          LET r == CuDNNLRNOp_DtorBody(data_desc_, norm_desc_, s1, s2)
          IN  /\ phase' = r.phase
              /\ data_desc_' = r.data
              /\ norm_desc_' = r.norm
    \* the vector member and the record of the instance's invocations end
    \* with the instance
    /\ cudnn_input_dims_' = <<>>
    /\ inv' = NoInvocation
    /\ prev' = NoPrev
    /\ step' = "Destroy"
    /\ UNCHANGED <<opKind, size_, alpha_, beta_, bias_, out>>

\* CuDNNLRNGradientOp::~CuDNNLRNGradientOp (lines 84-87)
CuDNNLRNGradientOp_Destroy ==
    /\ phase = "live" /\ opKind = "LRNGradient"
    /\ \E s1 \in Statuses, s2 \in Statuses :
          LET r == CuDNNLRNGradientOp_DtorBody(data_desc_, norm_desc_, s1, s2)
          IN  /\ phase' = r.phase
              /\ data_desc_' = r.data
              /\ norm_desc_' = r.norm
    \* the vector member and the record of the instance's invocations end
    \* with the instance
    /\ cudnn_input_dims_' = <<>>
    /\ inv' = NoInvocation
    /\ prev' = NoPrev
    /\ step' = "Destroy"
    /\ UNCHANGED <<opKind, size_, alpha_, beta_, bias_, out>>

----------------------------------------------------------------------------
(* Tensor interface *)

\* How an out-of-range index behaves in Tensor::dim32: a checked build throws,
\* an unchecked build reads past the vector and yields whatever is there.
OobChoices(dims) ==
    IF Len(dims) >= 4 THEN {[throws |-> TRUE, val |-> -1]}
    ELSE {[throws |-> TRUE, val |-> -1]}
         \cup {[throws |-> FALSE, val |-> g] : g \in Garbage}

\* Tensor::dim32(i) on a tensor of shape dims; -1 stands for the throw.
dim32(dims, i, oob) ==
    IF i < Len(dims) THEN dims[i + 1]
    ELSE IF oob.throws THEN -1 ELSE oob.val

\* One entry of the record of calls an invocation makes, in program order.
\*   layout: the tensor descriptor contents written (set) or passed (compute)
\*   norm:   the LRN descriptor passed;  data: element kind of the buffers
Call(name, layout, norm, data, status) ==
    [call |-> name, layout |-> layout, norm |-> norm, data |-> data,
     status |-> status]

----------------------------------------------------------------------------
(* Forward operator *)

\* A variant of the test of line 116 that refreshes on every invocation.
CuDNNLRNOp_ShapeChanged_always(X) == TRUE

\* Line 116: the shape-change test.
CuDNNLRNOp_ShapeChanged(X) == X.dims # cudnn_input_dims_

\* A variant of lines 119-131 that passes batch and channel in the wrong order.
CuDNNLRNOp_LayoutArgs_swapped(X, oob) ==
    <<dim32(X.dims, 1, oob), dim32(X.dims, 0, oob), dim32(X.dims, 2, oob),
      dim32(X.dims, 3, oob)>>

\* Lines 119-131: the arguments of cudnnSetTensor4dDescriptor, <<N, C, H, W>>,
\* read in the order C, H, W (lines 121-123) and N (line 128).
CuDNNLRNOp_LayoutArgs(X, oob) ==
    LET C == dim32(X.dims, 1, oob)
        H == dim32(X.dims, 2, oob)
        W == dim32(X.dims, 3, oob)
    IN  <<dim32(X.dims, 0, oob), C, H, W>>

\* A variant of lines 124-131 without CUDNN_ENFORCE around the set-layout
\* call: its status is dropped and the computation runs all the same.
CuDNNLRNOp_DoRunWithType_unchecked(T, X, oob, sSet, sFwd) ==
    LET changed == CuDNNLRNOp_ShapeChanged(X)
        cache1  == IF changed THEN X.dims ELSE cudnn_input_dims_
        nchw    == CuDNNLRNOp_LayoutArgs(X, oob)
        lookupThrows == changed /\ \E i \in 1..4 : nchw[i] = -1
        newDesc == [state |-> data_desc_.state, set |-> TRUE, dims |-> nchw,
                    type |-> T]
        setCall == Call("cudnnSetTensor4dDescriptor", newDesc, NullLRNDesc, T, sSet)
        desc1   == IF changed /\ CUDNN_ENFORCE(sSet) THEN newDesc ELSE data_desc_
        fwdCall == Call("cudnnLRNCrossChannelForward", desc1, norm_desc_, T, sFwd)
    IN  IF lookupThrows
        THEN [cache |-> cache1, desc |-> data_desc_, outType |-> out.type,
              calls |-> <<>>, result |-> "throw_dim32"]
        ELSE [cache |-> cache1, desc |-> desc1, outType |-> T,
              calls |-> (IF changed THEN <<setCall>> ELSE <<>>) \o <<fwdCall>>,
              result |-> IF CUDNN_ENFORCE(sFwd) THEN "true" ELSE "throw_cudnn"]

\* CuDNNLRNOp::DoRunWithType<T, M> (lines 110-147) as a function of the
\* members, the input X and the vendor's answers: the members and the output
\* tensor's element kind afterwards, the calls made and the result.
CuDNNLRNOp_DoRunWithType(T, X, oob, sSet, sFwd) ==
    LET changed == CuDNNLRNOp_ShapeChanged(X)
        \* line 118: the cache is written before the descriptor is
        cache1  == IF changed THEN X.dims ELSE cudnn_input_dims_
        nchw    == CuDNNLRNOp_LayoutArgs(X, oob)
        lookupThrows == changed /\ \E i \in 1..4 : nchw[i] = -1
        newDesc == [state |-> data_desc_.state, set |-> TRUE, dims |-> nchw,
                    type |-> T]
        setCall == Call("cudnnSetTensor4dDescriptor", newDesc, NullLRNDesc, T, sSet)
        desc1   == IF changed /\ CUDNN_ENFORCE(sSet) THEN newDesc ELSE data_desc_
        fwdCall == Call("cudnnLRNCrossChannelForward", desc1, norm_desc_, T, sFwd)
    IN  IF lookupThrows
        THEN [cache |-> cache1, desc |-> data_desc_, outType |-> out.type,
              calls |-> <<>>, result |-> "throw_dim32"]
        ELSE IF changed /\ ~CUDNN_ENFORCE(sSet)
        THEN [cache |-> cache1, desc |-> data_desc_, outType |-> out.type,
              calls |-> <<setCall>>, result |-> "throw_cudnn"]
        ELSE [cache |-> cache1, desc |-> desc1, outType |-> T,
              calls |-> (IF changed THEN <<setCall>> ELSE <<>>) \o <<fwdCall>>,
              result |-> IF CUDNN_ENFORCE(sFwd) THEN "true" ELSE "throw_cudnn"]

\* A variant of RunOnDevice without line 153: Y keeps the shape it had.
CuDNNLRNOp_ResizeOutput_skipped(X) == out

\* Line 153: Y->ResizeLike(X) gives Y the shape of X and keeps its element kind.
CuDNNLRNOp_ResizeOutput(X) == [out EXCEPT !.dims = X.dims]

\* A variant of lines 155-161 whose last branch runs the single-precision path
\* instead of throwing.
CuDNNLRNOp_Dispatch_fallthrough(X) ==
    IF X.type = "float16" THEN "float16" ELSE "float"

\* Lines 155-161: the dispatch on the element kind of X.
CuDNNLRNOp_Dispatch(X) ==
    IF X.type = "float" THEN "float"
    ELSE IF X.type = "float16" THEN "float16"
    ELSE "unsupported"

\* CuDNNLRNOp::RunOnDevice (lines 149-163)
CuDNNLRNOp_RunOnDevice ==
    /\ phase = "live" /\ opKind = "LRN"
    /\ \E X \in [dims : Shapes, type : InTypes],
          sSet \in Statuses, sFwd \in Statuses :
       \E oob \in OobChoices(X.dims) :
          LET resized == Call("ResizeLike",
                              [state |-> "none", set |-> FALSE,
                               dims |-> CuDNNLRNOp_ResizeOutput(X).dims,
                               type |-> "none"],
                              NullLRNDesc, "none", "CUDNN_STATUS_SUCCESS")
              T == CuDNNLRNOp_Dispatch(X)
              r == CuDNNLRNOp_DoRunWithType(T, X, oob, sSet, sFwd)
          IN  IF T = "unsupported"
              THEN /\ out' = CuDNNLRNOp_ResizeOutput(X)
                   /\ inv' = [op |-> "LRN", in |-> X, X |-> X.dims, Y |-> X.dims,
                              result |-> "throw_unsupported",
                              calls |-> <<resized>>]
                   /\ UNCHANGED <<cudnn_input_dims_, data_desc_>>
              ELSE /\ out' = [CuDNNLRNOp_ResizeOutput(X) EXCEPT !.type = r.outType]
                   /\ inv' = [op |-> "LRN", in |-> X, X |-> X.dims, Y |-> X.dims,
                              result |-> r.result,
                              calls |-> <<resized>> \o r.calls]
                   /\ cudnn_input_dims_' = r.cache
                   /\ data_desc_' = r.desc
    /\ prev' = Before(inv, inv'.in.dims)
    /\ step' = "RunOnDevice"
    /\ UNCHANGED <<phase, opKind, size_, alpha_, beta_, bias_, norm_desc_>>

----------------------------------------------------------------------------
(* Gradient operator *)

\* A variant of the test of line 172 that refreshes on every invocation.
CuDNNLRNGradientOp_ShapeChanged_always(dY) == TRUE

\* Line 172: the shape-change test, on dY.
CuDNNLRNGradientOp_ShapeChanged(dY) == dY.dims # cudnn_input_dims_

\* A variant of lines 191-204 that, after the backward call, issues it again.
CuDNNLRNGradientOp_DoRunWithType_twice(T, X, Y, dY, oob, sSet, sBwd) ==
    LET changed == dY.dims # cudnn_input_dims_
        cache1  == IF changed THEN dY.dims ELSE cudnn_input_dims_
        nchw    == <<dim32(dY.dims, 0, oob), dim32(dY.dims, 1, oob),
                     dim32(dY.dims, 2, oob), dim32(dY.dims, 3, oob)>>
        lookupThrows == changed /\ \E i \in 1..4 : nchw[i] = -1
        newDesc == [state |-> data_desc_.state, set |-> TRUE, dims |-> nchw,
                    type |-> T]
        setCall == Call("cudnnSetTensor4dDescriptor", newDesc, NullLRNDesc, T, sSet)
        desc1   == IF changed /\ CUDNN_ENFORCE(sSet) THEN newDesc ELSE data_desc_
        bwdCall == Call("cudnnLRNCrossChannelBackward", desc1, norm_desc_, T, sBwd)
    IN  IF lookupThrows
        THEN [cache |-> cache1, desc |-> data_desc_, outType |-> out.type,
              calls |-> <<>>, result |-> "throw_dim32"]
        ELSE IF changed /\ ~CUDNN_ENFORCE(sSet)
        THEN [cache |-> cache1, desc |-> data_desc_, outType |-> out.type,
              calls |-> <<setCall>>, result |-> "throw_cudnn"]
        ELSE IF ~CUDNN_ENFORCE(sBwd)
        THEN [cache |-> cache1, desc |-> desc1, outType |-> T,
              calls |-> (IF changed THEN <<setCall>> ELSE <<>>) \o <<bwdCall>>,
              result |-> "throw_cudnn"]
        ELSE [cache |-> cache1, desc |-> desc1, outType |-> T,
              calls |-> (IF changed THEN <<setCall>> ELSE <<>>)
                        \o <<bwdCall, bwdCall>>,
              result |-> "true"]

\* Lines 175-187: the arguments of cudnnSetTensor4dDescriptor, <<N, C, H, W>>,
\* read from dY in the order C, H, W (lines 177-179) and N (line 184).
CuDNNLRNGradientOp_LayoutArgs(dY, oob) ==
    LET C == dim32(dY.dims, 1, oob)
        H == dim32(dY.dims, 2, oob)
        W == dim32(dY.dims, 3, oob)
    IN  <<dim32(dY.dims, 0, oob), C, H, W>>

\* CuDNNLRNGradientOp::DoRunWithType<T, M> (lines 165-206).  X and Y are read
\* only through their data pointers: their shapes are never looked at.
CuDNNLRNGradientOp_DoRunWithType(T, X, Y, dY, oob, sSet, sBwd) ==
    LET changed == CuDNNLRNGradientOp_ShapeChanged(dY)
        \* line 174: the cache is written before the descriptor is
        cache1  == IF changed THEN dY.dims ELSE cudnn_input_dims_
        nchw    == CuDNNLRNGradientOp_LayoutArgs(dY, oob)
        lookupThrows == changed /\ \E i \in 1..4 : nchw[i] = -1
        newDesc == [state |-> data_desc_.state, set |-> TRUE, dims |-> nchw,
                    type |-> T]
        setCall == Call("cudnnSetTensor4dDescriptor", newDesc, NullLRNDesc, T, sSet)
        desc1   == IF changed /\ CUDNN_ENFORCE(sSet) THEN newDesc ELSE data_desc_
        bwdCall == Call("cudnnLRNCrossChannelBackward", desc1, norm_desc_, T, sBwd)
    IN  IF lookupThrows
        THEN [cache |-> cache1, desc |-> data_desc_, outType |-> out.type,
              calls |-> <<>>, result |-> "throw_dim32"]
        ELSE IF changed /\ ~CUDNN_ENFORCE(sSet)
        THEN [cache |-> cache1, desc |-> data_desc_, outType |-> out.type,
              calls |-> <<setCall>>, result |-> "throw_cudnn"]
        ELSE [cache |-> cache1, desc |-> desc1, outType |-> T,
              calls |-> (IF changed THEN <<setCall>> ELSE <<>>) \o <<bwdCall>>,
              result |-> IF CUDNN_ENFORCE(sBwd) THEN "true" ELSE "throw_cudnn"]

\* A variant of line 215 that sizes dX like X.
CuDNNLRNGradientOp_ResizeOutput_likeX(X, Y, dY) == [out EXCEPT !.dims = X.dims]

\* Line 215: dX->ResizeLike(dY), with X, Y and dY of lines 210-212 in scope.
CuDNNLRNGradientOp_ResizeOutput(X, Y, dY) == [out EXCEPT !.dims = dY.dims]

\* Lines 217-223: the dispatch on the element kind of dY.
CuDNNLRNGradientOp_Dispatch(dY) ==
    IF dY.type = "float" THEN "float"
    ELSE IF dY.type = "float16" THEN "float16"
    ELSE "unsupported"

\* Shapes of the inputs X and Y next to a given dY: the shape of dY, as the
\* operator expects, or another one.
OtherShapes(dY) == {dY.dims, <<MaxN, 2, 3, 4>>}

\* CuDNNLRNGradientOp::RunOnDevice (lines 208-226).  X and Y hold elements of
\* the kind of dY.
CuDNNLRNGradientOp_RunOnDevice ==
    /\ phase = "live" /\ opKind = "LRNGradient"
    /\ \E dY \in [dims : Shapes, type : InTypes],
          sSet \in Statuses, sBwd \in Statuses :
       \E Xd \in OtherShapes(dY), Yd \in OtherShapes(dY),
          oob \in OobChoices(dY.dims) :
          LET X == [dims |-> Xd, type |-> dY.type]
              Y == [dims |-> Yd, type |-> dY.type]
              resized == Call("ResizeLike",
                              [state |-> "none", set |-> FALSE,
                               dims |-> CuDNNLRNGradientOp_ResizeOutput(X, Y, dY).dims,
                               type |-> "none"],
                              NullLRNDesc, "none", "CUDNN_STATUS_SUCCESS")
              T == CuDNNLRNGradientOp_Dispatch(dY)
              r == CuDNNLRNGradientOp_DoRunWithType(T, X, Y, dY, oob, sSet, sBwd)
          IN  IF T = "unsupported"
              THEN /\ out' = CuDNNLRNGradientOp_ResizeOutput(X, Y, dY)
                   /\ inv' = [op |-> "LRNGradient", in |-> dY, X |-> Xd, Y |-> Yd,
                              result |-> "throw_unsupported",
                              calls |-> <<resized>>]
                   /\ UNCHANGED <<cudnn_input_dims_, data_desc_>>
              ELSE /\ out' = [CuDNNLRNGradientOp_ResizeOutput(X, Y, dY)
                                 EXCEPT !.type = r.outType]
                   /\ inv' = [op |-> "LRNGradient", in |-> dY, X |-> Xd, Y |-> Yd,
                              result |-> r.result,
                              calls |-> <<resized>> \o r.calls]
                   /\ cudnn_input_dims_' = r.cache
                   /\ data_desc_' = r.desc
    /\ prev' = Before(inv, inv'.in.dims)
    /\ step' = "RunOnDevice"
    /\ UNCHANGED <<phase, opKind, size_, alpha_, beta_, bias_, norm_desc_>>

\* The tensor system owns the output blob: between invocations it may give it
\* any shape and element kind.
ExternalResize ==
    /\ phase = "live"
    /\ \E t \in ExternalOutputs : out' = t
    /\ out' # out
    /\ step' = "ExternalResize"
    /\ UNCHANGED <<phase, opKind, size_, alpha_, beta_, bias_, data_desc_,
                   norm_desc_, cudnn_input_dims_, inv, prev>>

Next ==
    \/ CuDNNLRNOp_Construct
    \/ CuDNNLRNGradientOp_Construct
    \/ CuDNNLRNOp_RunOnDevice
    \/ CuDNNLRNGradientOp_RunOnDevice
    \/ ExternalResize
    \/ CuDNNLRNOp_Destroy
    \/ CuDNNLRNGradientOp_Destroy

Spec == Init /\ [][Next]_vars

----------------------------------------------------------------------------
(* Vocabulary of the properties *)

IsSetLayout(c) == c.call = "cudnnSetTensor4dDescriptor"
IsForward(c)   == c.call = "cudnnLRNCrossChannelForward"
IsBackward(c)  == c.call = "cudnnLRNCrossChannelBackward"
IsCompute(c)   == IsForward(c) \/ IsBackward(c)
IsResize(c)    == c.call = "ResizeLike"
IsVendor(c)    == IsSetLayout(c) \/ IsCompute(c)

Supported == {"float", "float16"}

\* The positions in the call record r of the calls satisfying P.
Where(r, P(_)) == {i \in DOMAIN r : P(r[i])}

\* This step is a RunOnDevice invocation of the operator op; inv' describes
\* it, inv the invocation before it, and the unprimed members the instance
\* as the invocation found it.
Invoked(op) == step' = "RunOnDevice" /\ inv'.op = op

\* The call record r holds a set-layout call with shape dims ahead of every
\* compute call.
SetsLayoutFirst(r, dims) ==
    \E i \in Where(r, IsSetLayout) :
        /\ r[i].layout.dims = dims
        /\ \A j \in Where(r, IsCompute) : i < j

----------------------------------------------------------------------------
(* C1: whenever the forward compute call is issued, the layout descriptor
   passed to it holds the shape (N, C, H, W) of the current input X; and if
   the descriptor did not hold that shape when the invocation began, a
   set-layout call with that shape was issued before the compute call in the
   same invocation.  Stated for every invocation, whatever happened in the
   invocations before it. *)
C1_LayoutReflectsInput ==
    [][Invoked("LRN") =>
         \A i \in Where(inv'.calls, IsForward) :
            /\ inv'.calls[i].layout.set
            /\ inv'.calls[i].layout.dims = inv'.in.dims
            /\ ~(data_desc_.set /\ data_desc_.dims = inv'.in.dims) =>
                 \E j \in Where(inv'.calls, IsSetLayout) :
                    j < i /\ inv'.calls[j].layout.dims = inv'.in.dims]_vars

(* C2: when the forward operator returns true twice in a row on inputs of the
   same shape, the second invocation issues no set-layout call, leaves the
   cached shape and the layout descriptor as they were, and issues the
   compute call. *)
C2_ShapeCacheIdempotence ==
    [][(/\ Invoked("LRN")
        /\ inv.op = "LRN" /\ inv.result = "true"
        /\ inv'.result = "true"
        /\ inv'.in.dims = inv.in.dims)
       => /\ Where(inv'.calls, IsSetLayout) = {}
          /\ cudnn_input_dims_' = cudnn_input_dims_
          /\ data_desc_' = data_desc_
          /\ Where(inv'.calls, IsForward) # {}]_vars

\* A second successful forward invocation on the same rank-4 shape, in either
\* element kind, that went straight to the compute call.
C2_Witness ==
    /\ inv.op = "LRN" /\ inv.result = "true"
    /\ prev.rel = "same" /\ prev.ok
    /\ inv.in.dims \in Shapes4
    /\ inv.in.type = "float16"
    /\ Where(inv.calls, IsSetLayout) = {}
    /\ Where(inv.calls, IsForward) # {}

(* C3, as claimed: whenever the input shape of a forward invocation differs
   from the input shape of the invocation before it, the invocation issues a
   set-layout call with the new shape's N, C, H, W ahead of the compute call
   and records the new shape as the cached shape. *)
C3_RefreshOnChangeFromPrevious ==
    [][(/\ Invoked("LRN")
        /\ inv.op = "LRN"
        /\ inv'.in.dims # inv.in.dims)
       => /\ SetsLayoutFirst(inv'.calls, inv'.in.dims)
          /\ cudnn_input_dims_' = inv'.in.dims]_vars

(* C3, amended: whenever a forward invocation whose input has a supported
   element kind and rank 4 finds the input shape different from the cached
   shape, it issues a set-layout call with the new shape's N, C, H, W ahead
   of any compute call and records the new shape as the cached shape. *)
C3_RefreshOnChangeFromCached ==
    [][(/\ Invoked("LRN")
        /\ inv'.in.type \in Supported
        /\ Len(inv'.in.dims) = 4
        /\ inv'.in.dims # cudnn_input_dims_)
       => /\ SetsLayoutFirst(inv'.calls, inv'.in.dims)
          /\ cudnn_input_dims_' = inv'.in.dims]_vars

\* A forward invocation on a rank-4 shape other than that of the invocation
\* before it, which set the layout to the new shape and then computed.
C3_Witness ==
    /\ inv.op = "LRN" /\ inv.result = "true"
    /\ prev.rel = "differs" /\ prev.ok
    /\ inv.in.dims \in Shapes4
    /\ SetsLayoutFirst(inv.calls, inv.in.dims)
    /\ Where(inv.calls, IsForward) # {}
    /\ cudnn_input_dims_ = inv.in.dims

(* C4: after every forward invocation that returns true, the output tensor Y
   has exactly the shape of the input X, whatever shape Y had before; and the
   resize of Y to that shape comes before the compute call. *)
C4_ForwardOutputShape ==
    (step = "RunOnDevice" /\ inv.op = "LRN" /\ inv.result = "true")
    => /\ out.dims = inv.in.dims
       /\ \E i \in Where(inv.calls, IsResize) :
             /\ inv.calls[i].layout.dims = inv.in.dims
             /\ \A j \in Where(inv.calls, IsForward) : i < j

\* A successful forward invocation on rank-4 input <<1, 2, 3, 4>> right after
\* a successful one on another shape: Y came in with a shape other than X's
\* (that of the invocation before, or <<2, 2, 3, 4>> from the tensor system).
C4_Witness ==
    /\ step = "RunOnDevice" /\ inv.op = "LRN" /\ inv.result = "true"
    /\ prev.rel = "differs" /\ prev.ok
    /\ inv.in.dims = <<1, 2, 3, 4>>
    /\ out.dims = <<1, 2, 3, 4>>
    /\ Where(inv.calls, IsForward) # {}

(* C5: after every backward invocation that returns true, the output
   gradient dX has exactly the shape of dY, whatever shape dX had before and
   whatever the shapes of X and Y are. *)
C5_BackwardOutputShape ==
    (step = "RunOnDevice" /\ inv.op = "LRNGradient" /\ inv.result = "true")
    => out.dims = inv.in.dims

\* A successful backward invocation on a rank-4 dY whose X has another shape,
\* right after a successful invocation on a dY of another shape.
C5_Witness ==
    /\ step = "RunOnDevice" /\ inv.op = "LRNGradient" /\ inv.result = "true"
    /\ prev.rel = "differs" /\ prev.ok
    /\ inv.in.dims = <<1, 2, 3, 4>>
    /\ inv.X # inv.in.dims
    /\ out.dims = <<1, 2, 3, 4>>
    /\ Where(inv.calls, IsBackward) # {}

(* C6: a forward invocation whose input is of neither supported element kind
   fails with the Unsupported-Type error and issues no vendor call: no
   set-layout call and no compute call. *)
C6_UnsupportedForwardNoVendorCall ==
    (inv.op = "LRN" /\ inv.in.type \notin Supported)
    => /\ inv.result = "throw_unsupported"
       /\ Where(inv.calls, IsVendor) = {}

\* An unsupported input of a shape that would need a refresh, on an instance
\* whose invocation before succeeded.
C6_Witness ==
    /\ step = "RunOnDevice" /\ inv.op = "LRN"
    /\ inv.in.type = "int32"
    /\ inv.in.dims \in Shapes4 /\ inv.in.dims # cudnn_input_dims_
    /\ prev.ok
    /\ inv.result = "throw_unsupported"

(* C7: an invocation (forward or backward) that fails with Unsupported-Type
   leaves the cached shape, the layout descriptor and the output tensor, its
   shape included, as they were before the invocation. *)
C7_UnsupportedNoSideEffect ==
    [][(step' = "RunOnDevice" /\ inv'.result = "throw_unsupported")
       => /\ cudnn_input_dims_' = cudnn_input_dims_
          /\ data_desc_' = data_desc_
          /\ out' = out]_vars

(* C8: in one invocation, when the set-layout call returns a status other
   than success, no compute call is issued and the invocation does not
   return true; and an invocation ends either returning true or throwing,
   never returning false. *)
C8_FailFastOnVendorFailure ==
    inv.op # "none"
    => /\ (\E i \in Where(inv.calls, IsSetLayout) : ~CUDNN_ENFORCE(inv.calls[i].status))
          => /\ Where(inv.calls, IsCompute) = {}
             /\ inv.result # "true"
       /\ (\E i \in Where(inv.calls, IsCompute) : ~CUDNN_ENFORCE(inv.calls[i].status))
          => inv.result # "true"
       /\ inv.result \in {"true", "throw_unsupported", "throw_dim32", "throw_cudnn"}

\* An invocation whose set-layout call failed.
C8_Witness ==
    /\ inv.op = "LRN"
    /\ \E i \in Where(inv.calls, IsSetLayout) :
          inv.calls[i].status = "CUDNN_STATUS_BAD_PARAM"
    /\ inv.result = "throw_cudnn"
    /\ inv.in.dims \in Shapes4

(* C9: by the end of an instance's lifetime every descriptor handle it
   created has been destroyed (once), also when a later vendor call of the
   constructor fails and when the first destroy call of the destructor
   fails; and no vendor call is passed a handle that was destroyed. *)
C9_HandlesReleased ==
    /\ phase \in {"ctor_failed", "destroyed", "terminated"}
       => /\ data_desc_.state # "created"
          /\ norm_desc_.state # "created"
    /\ \A i \in Where(inv.calls, IsVendor) :
          /\ inv.calls[i].layout.state = "created"
          /\ IsCompute(inv.calls[i]) => inv.calls[i].norm.state = "created"

(* C10: the normalization descriptor of a live instance was set exactly once,
   with the instance's (size, alpha, beta, bias); no invocation, returning or
   throwing, changes the descriptor or the four parameters, and every compute
   call is passed the descriptor as set at construction. *)
C10_NormDescriptorFixed ==
    [][/\ phase' = "live"
          => /\ norm_desc_'.nset = 1
             /\ <<norm_desc_'.size, norm_desc_'.alpha, norm_desc_'.beta,
                  norm_desc_'.bias>> = <<size_', alpha_', beta_', bias_'>>
       /\ step' = "RunOnDevice"
          => /\ norm_desc_' = norm_desc_
             /\ <<size_', alpha_', beta_', bias_'>> = <<size_, alpha_, beta_, bias_>>
             /\ \A i \in Where(inv'.calls, IsCompute) :
                   inv'.calls[i].norm = norm_desc_]_vars

\* A live instance built from size=5, alpha=1e-4, beta=0.75, bias=1 after a
\* throwing invocation that followed a successful one.
C10_Witness ==
    /\ phase = "live" /\ step = "RunOnDevice"
    /\ norm_desc_ = [state |-> "created", nset |-> 1, size |-> 5, alpha |-> 1,
                     beta |-> 75, bias |-> 1]
    /\ prev.ok /\ inv.result = "throw_cudnn"
    /\ Where(inv.calls, IsCompute) # {}

(* C11: the first invocation after construction that issues a compute call
   has issued a set-layout call before it, whatever the shape of its input:
   the compute call is never passed a layout descriptor that was created but
   never set. *)
C11_FirstInvocationRefreshes ==
    (inv.op # "none" /\ prev.rel = "first")
    => \A i \in Where(inv.calls, IsCompute) :
          /\ inv.calls[i].layout.set
          /\ \E j \in Where(inv.calls, IsSetLayout) : j < i

(* C12: whenever a compute call is issued, the element type recorded in the
   layout descriptor passed to it (by the set-layout call that last wrote
   the descriptor) is the element kind of the tensor data passed with it. *)
C12_LayoutTypeMatchesData ==
    \A i \in Where(inv.calls, IsCompute) :
        inv.calls[i].layout.set => inv.calls[i].layout.type = inv.calls[i].data

(* C13: an invocation that aborts during the descriptor refresh (in a
   dimension lookup, or because the set-layout call returns a status other
   than success) leaves the cached shape as it was before the invocation. *)
C13_CacheKeptWhenRefreshAborts ==
    [][(/\ step' = "RunOnDevice"
        /\ \/ inv'.result = "throw_dim32"
           \/ /\ inv'.result = "throw_cudnn"
              /\ Where(inv'.calls, IsCompute) = {})
       => cudnn_input_dims_' = cudnn_input_dims_]_vars

(* C14: an invocation that returns true has issued exactly one compute call,
   the forward one in the forward operator and the backward one in the
   gradient operator, and at most one set-layout call, which precedes the
   compute call. *)
C14_OneComputePerInvocation ==
    (inv.op # "none" /\ inv.result = "true")
    => /\ Len(inv.calls) = 1 + Cardinality(Where(inv.calls, IsVendor))
       /\ Cardinality(Where(inv.calls, IsCompute)) = 1
       /\ inv.op = "LRN" => Where(inv.calls, IsBackward) = {}
       /\ inv.op = "LRNGradient" => Where(inv.calls, IsForward) = {}
       /\ Cardinality(Where(inv.calls, IsSetLayout)) <= 1
       /\ \A i \in Where(inv.calls, IsSetLayout) :
             \A j \in Where(inv.calls, IsCompute) : i < j

\* A backward invocation that returned true after a refresh.
C14_Witness ==
    /\ inv.op = "LRNGradient" /\ inv.result = "true"
    /\ Cardinality(Where(inv.calls, IsSetLayout)) = 1
    /\ Cardinality(Where(inv.calls, IsBackward)) = 1

(* C15, as claimed: a backward invocation issues a set-layout call if and
   only if the shape of dY differs from the cached shape, and the call
   carries the dimensions of dY; the shapes of X and Y play no part; the
   backward compute call is passed the one layout descriptor member. *)
C15_BackwardRefreshIffChanged ==
    [][Invoked("LRNGradient")
       => /\ (Where(inv'.calls, IsSetLayout) # {})
             <=> (inv'.in.dims # cudnn_input_dims_)
          /\ \A i \in Where(inv'.calls, IsSetLayout) :
                inv'.calls[i].layout.dims = inv'.in.dims
          /\ \A i \in Where(inv'.calls, IsBackward) :
                inv'.calls[i].layout = data_desc_']_vars

(* C15, amended: a backward invocation whose dY has a supported element kind
   and rank 4 issues a set-layout call if and only if the shape of dY
   differs from the cached shape; the call carries the dimensions and the
   element kind of dY; the shapes of X and Y play no part; the backward
   compute call is passed the one layout descriptor member. *)
C15_BackwardRefreshKeyedOnDY ==
    [][(/\ Invoked("LRNGradient")
        /\ inv'.in.type \in Supported
        /\ Len(inv'.in.dims) = 4)
       => /\ (Where(inv'.calls, IsSetLayout) # {})
             <=> (inv'.in.dims # cudnn_input_dims_)
          /\ \A i \in Where(inv'.calls, IsSetLayout) :
                /\ inv'.calls[i].layout.dims = inv'.in.dims
                /\ inv'.calls[i].layout.type = inv'.in.type
          /\ \A i \in Where(inv'.calls, IsBackward) :
                inv'.calls[i].layout = data_desc_']_vars

\* A backward invocation on the dY shape of the successful invocation before
\* it, with X and Y of another shape than dY: no refresh, and the compute
\* call is issued.
C15_Witness ==
    /\ inv.op = "LRNGradient" /\ inv.result = "true"
    /\ prev.rel = "same" /\ prev.ok
    /\ inv.in.dims = <<1, 2, 3, 4>>
    /\ inv.X # inv.in.dims /\ inv.Y # inv.in.dims
    /\ Where(inv.calls, IsSetLayout) = {}
    /\ Where(inv.calls, IsBackward) # {}

============================================================================
